---- MODULE Spec2Model ----
(***************************************************************************)
(* Model of src/src/slide.rs: the `Slide` iterator over slices and Vecs.   *)
(*                                                                         *)
(* A caller owns one sequence `seq` and holds views over it.  Each view is *)
(* a `Slide { v, pos }`; `v` is the borrowed slice (modelled by its        *)
(* contents, the borrow being immutable) and `pos` the cursor.             *)
(* `out[i]` is the list of values the caller got back from the successive  *)
(* `it.next()` calls on view i since it was built, as the tests of the     *)
(* source write them down; `last` is the call made most recently.          *)
(***************************************************************************)
EXTENDS Integers, Sequences, FiniteSets, TLC

\* ---- bounds ----
MaxLen == 3
ExtraCalls == 2

Elems == {1, 2, 3}
\* the caller holds two views over its sequence
Views == {1, 2}
Kinds == {"slice", "vec"}

\* all sequences over Elems of length 0..MaxLen
Seqs == UNION {[1..n -> Elems] : n \in 0..MaxLen}

\* usize is 64 bits wide (x86_64): with overflow checks off its arithmetic
\* wraps modulo 2^64 = 18446744073709551616.  The number is beyond the
\* integers the checker holds, so it is written by its digits in base 10^9,
\* most significant first: 18 | 446744073 | 709551616
USIZE_MOD == <<18, 446744073, 709551616>>

VARIABLES seq, it, kind, out, last, panic

vars == <<seq, it, kind, out, last, panic>>

\* ---- Option<T> ----
None == <<>>
Some(x) == <<x>>
IsSome(o) == Len(o) = 1
Unwrap(o) == o[1]

\* ---- slice primitives ----

\* get() that wraps the index around the end of the slice
get_wrap(s, i) == IF Len(s) = 0 THEN None ELSE Some(s[(i % Len(s)) + 1])

\* <[T]>::get(i): Some(&s[i]) when i is in range, None otherwise (0-based)
get(s, i) == IF i < Len(s) THEN Some(s[i + 1]) ELSE None

\* &s[p..len-1]: leaves the last element out
SliceFrom_short(s, p) == SubSeq(s, p + 1, Len(s) - 1)

\* &s[p..] with an off-by-one start: keeps the current element too
SliceFrom_inclusive(s, p) == SubSeq(s, p, Len(s))

\* &s[p..]: the elements at 0-based indices p, p+1, .., len-1
SliceFrom(s, p) == SubSeq(s, p + 1, Len(s))

\* &s[p..] panics when p > len
SliceFromPanics(s, p) == p > Len(s)

\* &self[..]: the whole Vec as a slice
SliceFull(s) == SubSeq(s, 1, Len(s))

\* the cursor is never advanced
advance_stuck(pos) == pos

\* self.pos + 2: skips an element
advance_skip(pos) == pos + 2

\* self.pos = self.pos + 1
advance(pos) == pos + 1

\* self.v.len() >= self.pos: a present suffix for the last element too
has_rest_ge(len, pos) == len >= pos

\* self.v.len() > self.pos + 1: no suffix for the last two elements
has_rest_early(len, pos) == len > pos + 1

\* self.v.len() > self.pos, evaluated after the cursor has advanced
has_rest(len, pos) == len > pos

\* ---- Slide ----

\* next() that advances by shrinking the borrowed slice (self.v =
\* &self.v[1..]) instead of moving the cursor
next_consume(self) ==
    IF Len(self.v) = 0
    THEN [self |-> self, ret |-> None, panic |-> FALSE]
    ELSE LET val == self.v[1]
             rest == SubSeq(self.v, 2, Len(self.v))
         IN  [self |-> [self EXCEPT !.v = rest],
              ret |-> Some(<<val, IF Len(rest) > 0 THEN Some(rest) ELSE None>>),
              panic |-> FALSE]

\* next() that indexes self.v[self.pos] instead of using get(): panics
\* when the cursor is out of range
next_index(self) ==
    IF self.pos >= Len(self.v)
    THEN [self |-> self, ret |-> None, panic |-> TRUE]
    ELSE LET val == self.v[self.pos + 1]
             pos1 == advance(self.pos)
         IN  [self |-> [self EXCEPT !.pos = pos1],
              ret |-> Some(<<val, IF has_rest(Len(self.v), pos1)
                                  THEN Some(SliceFrom(self.v, pos1))
                                  ELSE None>>),
              panic |-> FALSE]

\* next() that advances the cursor before looking the element up, so that
\* the cursor moves even when there is nothing left
next_eager(self) ==
    LET g == get(self.v, self.pos)
        pos1 == advance(self.pos)
    IN  IF ~IsSome(g)
        THEN [self |-> [self EXCEPT !.pos = pos1], ret |-> None, panic |-> FALSE]
        ELSE [self |-> [self EXCEPT !.pos = pos1],
              ret |-> Some(<<Unwrap(g), IF has_rest(Len(self.v), pos1)
                                        THEN Some(SliceFrom(self.v, pos1))
                                        ELSE None>>),
              panic |-> FALSE]

\* Slide::next: the new view, the returned Option<(&T, Option<&[T]>)>, and
\* whether the call panicked
next(self) ==
    LET g == get(self.v, self.pos)
    IN  IF ~IsSome(g)
        THEN [self |-> self, ret |-> None, panic |-> FALSE]
        ELSE LET val == Unwrap(g)
                 pos1 == advance(self.pos)
             IN  IF has_rest(Len(self.v), pos1)
                 THEN [self |-> [self EXCEPT !.pos = pos1],
                       ret |-> Some(<<val, Some(SliceFrom(self.v, pos1))>>),
                       panic |-> SliceFromPanics(self.v, pos1)]
                 ELSE [self |-> [self EXCEPT !.pos = pos1],
                       ret |-> Some(<<val, None>>),
                       panic |-> FALSE]

\* a.wrapping_sub(b) for a < b: 2^64 - (b - a), by its digits in base 10^9,
\* most significant first (0 - 1 is <<18, 446744073, 709551615>>, that is
\* 18446744073709551615 = usize::MAX)
usize_wrap(a, b) ==
    LET k == b - a
        lo == USIZE_MOD[3] - (k % 10^9)
        borrow == IF lo < 0 THEN 1 ELSE 0
    IN  <<USIZE_MOD[1],
          USIZE_MOD[2] - (k \div 10^9) - borrow,
          lo + borrow * 10^9>>

\* a - b on usize: exact when a >= b; otherwise the build either panics
\* (overflow checks on) or wraps modulo 2^64 (overflow checks off)
usize_sub(a, b) ==
    IF a >= b
    THEN {[val |-> a - b, panic |-> FALSE]}
    ELSE {[val |-> 0, panic |-> TRUE],
          [val |-> usize_wrap(a, b), panic |-> FALSE]}

\* size_hint() that forgets the cursor
size_hint_len(self) ==
    {[ret |-> <<Len(self.v), Some(Len(self.v))>>, panic |-> FALSE]}

\* Slide::size_hint: the possible outcomes (diff, Some(diff))
size_hint(self) ==
    {[ret |-> <<d.val, Some(d.val)>>, panic |-> d.panic] :
        d \in usize_sub(Len(self.v), self.pos)}

\* slide() on a Vec that starts the cursor at 1
slide_vec_one(self) == [v |-> SliceFull(self), pos |-> 1]

\* <&[T] as Slider>::slide
slide_slice(self) == [v |-> self, pos |-> 0]

\* <Vec<T> as Slider>::slide
slide_vec(self) == [v |-> SliceFull(self), pos |-> 0]

slide(k, self) == IF k = "slice" THEN slide_slice(self) ELSE slide_vec(self)

\* ---- the caller ----

Init ==
    /\ seq \in Seqs
    /\ kind \in [Views -> Kinds]
    /\ it = [i \in Views |-> slide(kind[i], seq)]
    /\ out = [i \in Views |-> <<>>]
    /\ last = [op |-> "slide", view |-> 2, ret |-> None]
    /\ panic = FALSE

\* slide() that keeps the cursor of the view it replaces
SlideSlice_keep(i) ==
    /\ ~panic
    /\ it' = [it EXCEPT ![i] = [v |-> slide_slice(seq).v, pos |-> it[i].pos]]
    /\ kind' = [kind EXCEPT ![i] = "slice"]
    /\ out' = [out EXCEPT ![i] = <<>>]
    /\ last' = [op |-> "slide", view |-> i, ret |-> None]
    /\ UNCHANGED <<seq, panic>>

\* let mut it = s.slide() on the slice &v[..]
SlideSlice(i) ==
    /\ ~panic
    /\ it' = [it EXCEPT ![i] = slide_slice(seq)]
    /\ kind' = [kind EXCEPT ![i] = "slice"]
    /\ out' = [out EXCEPT ![i] = <<>>]
    /\ last' = [op |-> "slide", view |-> i, ret |-> None]
    /\ UNCHANGED <<seq, panic>>

\* let mut it = v.slide() on the Vec
SlideVec(i) ==
    /\ ~panic
    /\ it' = [it EXCEPT ![i] = slide_vec(seq)]
    /\ kind' = [kind EXCEPT ![i] = "vec"]
    /\ out' = [out EXCEPT ![i] = <<>>]
    /\ last' = [op |-> "slide", view |-> i, ret |-> None]
    /\ UNCHANGED <<seq, panic>>

\* it.next() with one cursor shared by all the views
CallNext_shared(i) ==
    /\ ~panic
    /\ Len(out[i]) < MaxLen + ExtraCalls
    /\ LET r == next(it[i])
       IN  /\ it' = [j \in Views |-> r.self]
           /\ out' = [out EXCEPT ![i] = Append(@, r.ret)]
           /\ last' = [op |-> "next", view |-> i, ret |-> r.ret]
           /\ panic' = r.panic
    /\ UNCHANGED <<seq, kind>>

\* it.next()
CallNext(i) ==
    /\ ~panic
    /\ Len(out[i]) < MaxLen + ExtraCalls
    /\ LET r == next(it[i])
       IN  /\ it' = [it EXCEPT ![i] = r.self]
           /\ out' = [out EXCEPT ![i] = Append(@, r.ret)]
           /\ last' = [op |-> "next", view |-> i, ret |-> r.ret]
           /\ panic' = r.panic
    /\ UNCHANGED <<seq, kind>>

\* it.size_hint()
CallSizeHint(i) ==
    /\ ~panic
    /\ \E o \in size_hint(it[i]) :
           /\ last' = [op |-> "size_hint", view |-> i, ret |-> o.ret]
           /\ panic' = o.panic
    /\ UNCHANGED <<seq, it, kind, out>>

Next ==
    \/ \E i \in Views : SlideSlice(i)
    \/ \E i \in Views : SlideVec(i)
    \/ \E i \in Views : CallNext(i)
    \/ \E i \in Views : CallSizeHint(i)

Spec == Init /\ [][Next]_vars

\* one traversal per view, as in `for (x, opt_rest) in v.slide()`: the
\* views built at the start are driven by next() until the loop ends, and
\* no view is rebuilt
NextLive ==
    \/ \E i \in Views : CallNext(i)
    \/ \E i \in Views : CallSizeHint(i)

SpecLive == Init /\ [][NextLive]_vars /\ \A i \in Views : WF_vars(CallNext(i))

\* ---- vocabulary of the properties ----

\* N, the length of the caller's sequence
N == Len(seq)

\* number of items (non-None results) view i has produced so far
Produced(i) == Cardinality({k \in 1..Len(out[i]) : IsSome(out[i][k])})

\* the suffix component of a produced item, and its element component
ItemElem(r) == Unwrap(r)[1]
ItemRest(r) == Unwrap(r)[2]

\* S[a .. N] written out, 1-based a
SuffixOf(s, a) == [j \in 1..(Len(s) - a + 1) |-> s[a + j - 1]]

TypeOK ==
    /\ seq \in Seqs
    /\ kind \in [Views -> Kinds]
    /\ \A i \in Views : it[i].pos \in Nat /\ it[i].v \in Seqs
    /\ panic \in BOOLEAN

\* ---- properties ----

\* C1: over a sequence of length N >= 1, a fresh view returns an item on
\* each of its first N next() calls and None on call N+1 and on every
\* later call
C1_ExactlyNItems ==
    \A i \in Views : N >= 1 =>
        \A k \in 1..Len(out[i]) :
            /\ k <= N => IsSome(out[i][k])
            /\ k > N => out[i][k] = None

C1_Witness ==
    /\ N = MaxLen
    /\ Len(out[1]) = N + ExtraCalls
    /\ Produced(1) = N

\* C2: a suffix that next() returns as present holds at least one element
C2_SuffixNonEmpty ==
    \A i \in Views : \A k \in 1..Len(out[i]) :
        (IsSome(out[i][k]) /\ IsSome(ItemRest(out[i][k])))
            => Len(Unwrap(ItemRest(out[i][k]))) >= 1

C2_Witness ==
    /\ Len(out[1]) >= 2
    /\ IsSome(out[1][1]) /\ IsSome(ItemRest(out[1][1]))
    /\ IsSome(out[1][Len(out[1])]) /\ ~IsSome(ItemRest(out[1][Len(out[1])]))

\* C3: for 0-based i in [0, N-1), the i-th item of a fresh view has a
\* present suffix equal to S[i+1 .. N], of length N-i-1
C3_SuffixIsTail ==
    \A i \in Views : \A k \in 1..Len(out[i]) :
        k <= N - 1 =>
            /\ IsSome(out[i][k])
            /\ IsSome(ItemRest(out[i][k]))
            /\ Unwrap(ItemRest(out[i][k])) = SuffixOf(seq, k + 1)
            /\ Len(Unwrap(ItemRest(out[i][k]))) = N - k

C3_Witness ==
    /\ N = MaxLen
    /\ Len(out[2]) = N - 1
    /\ seq[N] # seq[N - 1]

\* C4: for 0-based i in [0, N), the element of the i-th item of a fresh
\* view is S[i]
C4_ElementInOrder ==
    \A i \in Views : \A k \in 1..Len(out[i]) :
        k <= N => (IsSome(out[i][k]) /\ ItemElem(out[i][k]) = seq[k])

C4_Witness ==
    /\ N = MaxLen
    /\ Len(out[1]) = N
    /\ Cardinality({seq[k] : k \in 1..N}) = N

\* C5: over a non-empty sequence, the item produced for index N-1 has an
\* absent suffix and no other produced item has
C5_LastSuffixAbsent ==
    \A i \in Views : N >= 1 =>
        \A k \in 1..Len(out[i]) :
            IsSome(out[i][k]) => (ItemRest(out[i][k]) = None <=> k = N)

C5_Witness ==
    /\ N >= 2
    /\ Len(out[2]) = N
    /\ IsSome(out[2][N]) /\ ItemRest(out[2][N]) = None

\* C6: over an empty sequence, the first next() returns None without a
\* panic and no later call produces an item
C6_EmptyExhausted ==
    N = 0 =>
        /\ ~panic
        /\ \A i \in Views : \A k \in 1..Len(out[i]) : out[i][k] = None

C6_Witness ==
    /\ N = 0
    /\ Len(out[1]) >= 2
    /\ Len(out[2]) >= 1
    /\ ~panic

\* C7: at every point of a traversal size_hint() returns lower and upper
\* bound both equal to N minus the number of items produced, which is the
\* sequence length minus the cursor
C7_SizeHintExact ==
    \A i \in Views :
        /\ \A o \in size_hint(it[i]) :
               /\ ~o.panic
               /\ o.ret = <<N - Produced(i), Some(N - Produced(i))>>
               /\ o.ret = <<Len(it[i].v) - it[i].pos, Some(Len(it[i].v) - it[i].pos)>>
        /\ (last.op = "size_hint" /\ last.view = i)
               => last.ret = <<N - Produced(i), Some(N - Produced(i))>>

C7_Witness ==
    /\ N >= 2
    /\ last.op = "size_hint" /\ last.view = 1
    /\ Produced(1) = 1
    /\ last.ret = <<N - 1, Some(N - 1)>>

\* C8: slide() on a slice and slide() on a Vec both give a view with
\* cursor 0 over exactly the caller's elements, and the two views return
\* the same values under the same next() calls
C8_SliceVecAgree ==
    \A i \in Views :
        /\ it[i].v = seq
        /\ out[i] = <<>> => it[i].pos = 0
        /\ \A j \in Views : (kind[i] = "slice" /\ kind[j] = "vec") =>
               \A k \in 1..Len(out[i]) :
                   k <= Len(out[j]) => out[i][k] = out[j][k]

C8_Witness ==
    /\ N >= 2
    /\ kind[1] = "slice" /\ kind[2] = "vec"
    /\ Len(out[1]) = N + 1 /\ Len(out[2]) = N + 1

\* C9: in every state reachable from slide() by next() and size_hint()
\* calls, 0 <= pos <= length of the sequence
C9_CursorInRange ==
    \A i \in Views :
        /\ 0 <= it[i].pos
        /\ it[i].pos <= Len(it[i].v)
        /\ it[i].pos <= N

C9_Witness ==
    /\ N >= 1
    /\ it[2].pos = N
    /\ Len(out[2]) > N
    /\ last.op = "size_hint" /\ last.view = 2

Active(i) == it[i].pos < Len(it[i].v)
Exhausted(i) == it[i].pos >= Len(it[i].v)

\* the step builds a new view in slot i
IsSlideStep(i) == last'.op = "slide" /\ last'.view = i

\* the step is a next() call on view i
IsNextStep(i) == ~IsSlideStep(i) /\ Len(out'[i]) = Len(out[i]) + 1

C10_StartsActiveIffNonEmpty ==
    \A i \in Views : out[i] = <<>> => (Active(i) <=> N >= 1)

C10_ExhaustedStep ==
    \A i \in Views : (Exhausted(i) /\ ~IsSlideStep(i)) =>
        /\ Exhausted(i)'
        /\ it'[i].pos = it[i].pos
        /\ IsNextStep(i) => (last'.ret = None /\ out'[i][Len(out'[i])] = None)

\* C10: a view starts ACTIVE exactly when the sequence is non-empty;
\* once EXHAUSTED every next() returns None and leaves the cursor
\* unchanged, so the view never becomes ACTIVE again
C10_ExhaustedTerminal ==
    /\ [](C10_StartsActiveIffNonEmpty)
    /\ [][C10_ExhaustedStep]_vars

C10_Witness ==
    /\ N >= 1
    /\ Exhausted(1)
    /\ Len(out[1]) >= N + 2
    /\ last.op = "next" /\ last.view = 1 /\ last.ret = None

\* the step is a size_hint() call
IsSizeHintStep == last'.op = "size_hint"

C11_CursorStep ==
    \A i \in Views : ~IsSlideStep(i) =>
        /\ it'[i].pos >= it[i].pos
        /\ IsNextStep(i) =>
               IF IsSome(last'.ret)
               THEN it'[i].pos = it[i].pos + 1
               ELSE it'[i].pos = it[i].pos
        /\ IsSizeHintStep => it'[i].pos = it[i].pos

\* C11: the cursor never decreases: a next() that produces an item adds
\* exactly one to it, a next() that returns None leaves it unchanged, and
\* size_hint() never changes it
C11_CursorMonotonic == [][C11_CursorStep]_vars

C11_Witness ==
    /\ N >= 2
    /\ it[1].pos = N
    /\ Len(out[1]) = N + 1
    /\ last.op = "size_hint" /\ last.view = 1
    /\ it[2].pos = 1

\* C12: under repeated next() requests every view reaches EXHAUSTED, and
\* it is EXHAUSTED exactly when it has produced N items
C12_EventuallyExhausted ==
    /\ \A i \in Views : <>Exhausted(i)
    /\ [](\A i \in Views : Exhausted(i) <=> Produced(i) = N)

C12_Witness ==
    /\ N = MaxLen
    /\ Exhausted(1) /\ Produced(1) = N
    /\ Exhausted(2) /\ Produced(2) = N
    /\ Len(out[1]) = N /\ Len(out[2]) = N

C13_FrameStep ==
    /\ seq' = seq
    /\ \A i \in Views :
           /\ it'[i].v = it[i].v
           /\ (IsNextStep(i) \/ IsSizeHintStep) =>
                  (kind'[i] = kind[i] /\ it'[i].v = seq)

\* C13: the underlying sequence, its length and every element, is the
\* same after any slide(), next() and size_hint() call as before; a view
\* changes nothing but its own cursor
C13_SequenceUnchanged ==
    /\ [](\A i \in Views : it[i].v = seq /\ Len(it[i].v) = N)
    /\ [][C13_FrameStep]_vars

C13_Witness ==
    /\ N = MaxLen
    /\ it[1].pos = N - 1
    /\ it[2].pos = N
    /\ kind[1] = "vec" /\ kind[2] = "slice"
    /\ last.op = "next" /\ last.view = 1

\* the results of k successive next() calls on a view nobody else touches
RECURSIVE RunAlone(_, _)
RunAlone(self, k) ==
    IF k = 0
    THEN <<>>
    ELSE LET r == next(self)
         IN  <<r.ret>> \o RunAlone(r.self, k - 1)

C14_SameAsAlone ==
    \A i \in Views : out[i] = RunAlone(slide(kind[i], seq), Len(out[i]))

C14_OtherUntouched ==
    \A i \in Views : IsNextStep(i) =>
        \A j \in Views \ {i} : it'[j] = it[j] /\ out'[j] = out[j]

\* C14: two views built independently over the same sequence do not
\* affect each other: under any interleaving of next() calls each returns
\* what it would return if traversed alone, and a next() on one view
\* leaves the other view's cursor unchanged
C14_ViewsIndependent ==
    /\ [](C14_SameAsAlone)
    /\ [][C14_OtherUntouched]_vars

C14_Witness ==
    /\ N = MaxLen
    /\ Len(out[1]) = 2 /\ it[1].pos = 2
    /\ Len(out[2]) = N + 1 /\ it[2].pos = N
    /\ last.op = "next" /\ last.view = 2

\* C15: v.len() - pos in size_hint() never underflows in a state reachable
\* through slide() and next(), because pos never exceeds v.len(); so
\* size_hint() neither panics nor wraps
C15_NoUnderflow ==
    /\ ~panic
    /\ \A i \in Views :
           /\ Len(it[i].v) >= it[i].pos
           /\ \A d \in usize_sub(Len(it[i].v), it[i].pos) :
                  ~d.panic /\ d.val + it[i].pos = Len(it[i].v)
           /\ \A o \in size_hint(it[i]) : ~o.panic

C15_Witness ==
    /\ N >= 1
    /\ last.op = "size_hint" /\ last.view = 1
    /\ last.ret = <<0, Some(0)>>
    /\ Len(out[1]) = N + ExtraCalls
    /\ ~panic

\* C16: right after a next() that returns an item, the returned suffix
\* agrees with size_hint(): present with length equal to the remaining
\* count when that count is > 0, absent exactly when the count is 0; and
\* the elements of a returned suffix are exactly the elements the later
\* next() calls produce, in that order
C16_SuffixMatchesHint ==
    /\ (last.op = "next" /\ IsSome(last.ret)) =>
           \A o \in size_hint(it[last.view]) :
               /\ o.ret[1] > 0 =>
                      /\ IsSome(ItemRest(last.ret))
                      /\ Len(Unwrap(ItemRest(last.ret))) = o.ret[1]
               /\ ItemRest(last.ret) = None <=> o.ret[1] = 0
    /\ \A i \in Views : \A k \in 1..Len(out[i]) :
           (IsSome(out[i][k]) /\ IsSome(ItemRest(out[i][k]))) =>
               \A m \in (k + 1)..Len(out[i]) :
                   IF m - k <= Len(Unwrap(ItemRest(out[i][k])))
                   THEN /\ IsSome(out[i][m])
                        /\ ItemElem(out[i][m]) = Unwrap(ItemRest(out[i][k]))[m - k]
                   ELSE out[i][m] = None

C16_Witness ==
    /\ N = MaxLen
    /\ Cardinality({seq[k] : k \in 1..N}) = N
    /\ last.op = "next" /\ last.view = 2
    /\ Len(out[2]) = N - 1
    /\ IsSome(ItemRest(last.ret))
    /\ Len(Unwrap(ItemRest(last.ret))) = 1

C17_SameResults ==
    \A i \in Views : \A j \in Views : \A k \in 1..Len(out[i]) :
        k <= Len(out[j]) => out[i][k] = out[j][k]

C17_FirstIsElementZero ==
    \A i \in Views : (N >= 1 /\ Len(out[i]) >= 1) =>
        (IsSome(out[i][1]) /\ ItemElem(out[i][1]) = seq[1])

C17_RestartStep ==
    \A i \in Views : IsSlideStep(i) =>
        (it'[i].pos = 0 /\ out'[i] = <<>> /\ it'[i].v = seq)

\* C17: two fresh views over the same sequence, driven by the same number
\* of next() calls, return identical results at every step, and a new view
\* starts again from element 0 however far an earlier view advanced
C17_Deterministic ==
    /\ [](C17_SameResults /\ C17_FirstIsElementZero)
    /\ [][C17_RestartStep]_vars

C17_Witness ==
    /\ N >= 2
    /\ kind[1] = kind[2]
    /\ last.op = "slide" /\ last.view = 1
    /\ it[1].pos = 0
    /\ it[2].pos = N /\ Len(out[2]) = N

\* C18: next() indexes the sequence only in bounds: it reads an element
\* only when pos < v.len() and takes v[pos..] after the increment only when
\* pos < v.len(), so no reachable next() call panics
C18_NextInBounds ==
    /\ ~panic
    /\ \A i \in Views :
           LET r == next(it[i])
           IN  /\ ~r.panic
               /\ IsSome(r.ret) => it[i].pos < Len(it[i].v)
               /\ (IsSome(r.ret) /\ IsSome(ItemRest(r.ret))) =>
                      (r.self.pos < Len(it[i].v)
                       /\ ~SliceFromPanics(it[i].v, r.self.pos))

C18_Witness ==
    /\ N = MaxLen
    /\ last.op = "next" /\ last.view = 2 /\ last.ret = None
    /\ Len(out[2]) = N + 1
    /\ it[1].pos = 0
    /\ ~panic

====
